---- MODULE Spec2Model ----
(***************************************************************************)
(* Verification model of the gesture-controlled virtual apple:             *)
(*   state_machine.py    AppleStateMachine (five-state FSM)                *)
(*   apple_controller.py AppleController (FSM + x, y, z, scale)            *)
(*   gesture_detector.py GestureDetector (raw classification + hysteresis) *)
(*   utils.py            constants, lerp, clamp, distance, MovingAverage   *)
(*                                                                         *)
(* Python floats are IEEE-754 binary floating point.  The model keeps the  *)
(* format's shape (round-to-nearest-even to a fixed number of significant  *)
(* bits after every operation) at a reduced width: a value is an integer   *)
(* count of 2^-FracBits units carrying at most Precision significant bits. *)
(***************************************************************************)
EXTENDS Integers, Sequences, FiniteSets, TLC

\* ------------------------------------------------------------------------
\*  Bounds of the model (not program constants)
\* ------------------------------------------------------------------------
FracBits == 12
Precision == 8
MaxCalls == 6
MaxNoHand == 16
MaxHandFrames == 5
MaxDetect == 5
GridSpan == 5
MaWindow == 3
MaxPush == 6
CamW == 1280
CamH == 720
MaxFrames == 6
MaxPipeFrames == 5
\* a hysteresis threshold above the configured one
HysteresisH == 3
ChunkLen == 15
LongFrames == 2

\* ------------------------------------------------------------------------
\*  Floating point kernel
\* ------------------------------------------------------------------------
RECURSIVE Pow2(_)
Pow2(k) == IF k <= 0 THEN 1 ELSE 2 * Pow2(k - 1)

Unit == Pow2(FracBits)

Abs(n) == IF n < 0 THEN -n ELSE n

RECURSIVE BitLen(_)
BitLen(n) == IF n <= 0 THEN 0 ELSE 1 + BitLen(n \div 2)

\* |num| / d rounded to the nearest integer, ties to even
RoundHalfEven(num, d) ==
    LET q == num \div d
        r == num - q * d
    IN  IF 2 * r < d THEN q
        ELSE IF 2 * r > d THEN q + 1
        ELSE IF q % 2 = 0 THEN q ELSE q + 1

\* the rational num/den (in units) rounded to Precision significant bits
RoundQ(num, den) ==
    LET mag  == Abs(num)
        bits == BitLen(mag \div den)
        q    == IF bits > Precision THEN Pow2(bits - Precision) ELSE 1
        m    == q * RoundHalfEven(mag, den * q)
    IN  IF num < 0 THEN -m ELSE m

\* a decimal literal of the source, given in thousandths
Dec(milli) == RoundQ(milli * Unit, 1000)

fadd(a, b) == RoundQ(a + b, 1)
fsub(a, b) == RoundQ(a - b, 1)
fmul(a, b) == RoundQ(a * b, Unit)

\* ------------------------------------------------------------------------
\*  utils.py constants and helpers
\* ------------------------------------------------------------------------
MIN_SCALE == Dec(300)
MAX_SCALE == Dec(2500)
DEFAULT_SCALE == Dec(600)
POSITION_LERP == Dec(150)
SCALE_LERP == Dec(100)
PULL_SCALE_STEP == Dec(40)
DEFAULT_APPLE_X == Dec(500)
DEFAULT_APPLE_Y == Dec(500)
DEFAULT_APPLE_Z == Dec(1000)
IDLE_TIMEOUT_FRAMES == 15
GESTURE_HYSTERESIS == 2

\* utils.lerp stepping from the target instead of from the start
lerp_from_target(a, b, t) == fadd(b, fmul(fsub(b, a), t))

\* utils.lerp
lerp(a, b, t) == fadd(a, fmul(fsub(b, a), t))

Max2(a, b) == IF a >= b THEN a ELSE b
Min2(a, b) == IF a <= b THEN a ELSE b

clamp(val, lo, hi) == Max2(lo, Min2(hi, val))

GRAB_THRESHOLD == Dec(60)
PULL_Z_DELTA_THRESHOLD == Dec(-2)
PULL_W_DELTA_THRESHOLD == Dec(2)
PULL_FRAMES_REQUIRED == 3

\* floor of the square root of n, searched between lo and hi
RECURSIVE ISqrtIn(_, _, _)
ISqrtIn(n, lo, hi) ==
    IF lo >= hi THEN lo
    ELSE LET mid == (lo + hi + 1) \div 2
         IN  IF mid * mid <= n THEN ISqrtIn(n, mid, hi)
             ELSE ISqrtIn(n, lo, mid - 1)

\* math.sqrt of n/Unit^2 in units, rounded to Precision significant bits
fsqrt2(n) ==
    LET r    == ISqrtIn(n, 0, 2 * Unit)
        bits == BitLen(r)
        q    == IF bits > Precision THEN Pow2(bits - Precision) ELSE 1
        lo   == (r \div q) * q
        \* sqrt(n) against the midpoint lo + q/2, compared as squares
        low  == 4 * n < (2 * lo + q) * (2 * lo + q)
        tie  == 4 * n = (2 * lo + q) * (2 * lo + q)
    IN  IF low THEN lo
        ELSE IF tie /\ (lo \div q) % 2 = 0 THEN lo
        ELSE lo + q

\* (a - b) ** 2 in units of 1/Unit^2, rounded to Precision significant bits
fsquare2(d) == RoundQ(d * d, 1)

\* utils.distance for two (x, y) points
distance(p1, p2) ==
    LET dx == fsquare2(fsub(p1[1], p2[1]))
        dy == fsquare2(fsub(p1[2], p2[2]))
    IN  fsqrt2(RoundQ(dx + dy, 1))

\* collections.deque(maxlen).append
deque_append(d, v, maxlen) ==
    LET a == Append(d, v)
    IN  IF Len(a) > maxlen THEN Tail(a) ELSE a

RECURSIVE fsum(_)
fsum(vals) ==
    IF vals = <<>> THEN 0
    ELSE fadd(fsum(SubSeq(vals, 1, Len(vals) - 1)), vals[Len(vals)])

\* MovingAverage.update dividing by the capacity instead of the fill
ma_update_divides_by_window(buf, window, value) ==
    LET b == deque_append(buf, value, window)
    IN  [buf |-> b, avg |-> RoundQ(fsum(b), window)]

\* MovingAverage.update: the buffer afterwards and the average returned
ma_update(buf, window, value) ==
    LET b == deque_append(buf, value, window)
    IN  [buf |-> b, avg |-> RoundQ(fsum(b), Len(b))]

\* MovingAverage.reset
ma_reset(buf) == <<>>

\* MovingAverage.values
ma_values(buf) == buf

\* ------------------------------------------------------------------------
\*  state_machine.py
\* ------------------------------------------------------------------------
AppleState == {"IDLE", "RESPONDING", "PULLING", "GRABBED", "FOLLOWING"}

TRANSITIONS ==
    [s \in AppleState |->
        CASE s = "IDLE"       -> {"RESPONDING"}
          [] s = "RESPONDING" -> {"PULLING", "IDLE"}
          [] s = "PULLING"    -> {"GRABBED", "IDLE"}
          [] s = "GRABBED"    -> {"FOLLOWING", "IDLE"}
          [] s = "FOLLOWING"  -> {"IDLE"}]

\* mutant: the table is not consulted
transition_unchecked(s, new_state) == [state |-> new_state, ret |-> TRUE]

\* mutant: a blocked transition is reported as applied
transition_always_true(s, new_state) ==
    IF new_state = s \/ new_state \in TRANSITIONS[s]
    THEN [state |-> new_state, ret |-> TRUE]
    ELSE [state |-> s, ret |-> TRUE]

\* AppleStateMachine.transition: the state afterwards and the value returned
transition(s, new_state) ==
    IF new_state = s
    THEN [state |-> s, ret |-> TRUE]
    ELSE IF new_state \in TRANSITIONS[s]
         THEN [state |-> new_state, ret |-> TRUE]
         ELSE [state |-> s, ret |-> FALSE]

\* mutant: reset goes through the transition table from a stale state
reset_keeps_grabbed(s) == IF s = "GRABBED" THEN s ELSE "IDLE"

\* AppleStateMachine.reset: the state afterwards
reset(s) == "IDLE"

\* ------------------------------------------------------------------------
\*  hand_tracker.py: HandData
\* ------------------------------------------------------------------------
FingerTips == <<8, 12, 16, 20>>
FingerMcps == <<5, 9, 13, 17>>

\* a hand sample; index_tip is landmark 8, so its y is all_landmarks[8].y
HandData(pc, thumb, index_x, ys, w, zv) ==
    [palm_center |-> pc,
     thumb_tip |-> thumb,
     index_tip |-> <<index_x, ys[8]>>,
     all_landmarks |-> [i \in DOMAIN ys |-> [y |-> ys[i]]],
     palm_width |-> w,
     avg_z |-> zv]

\* hand_data is None: no hand sample this frame
None == [absent |-> TRUE]

\* four fingers above their base joints
OpenYs ==
    [i \in {5, 8, 9, 12, 13, 16, 17, 20} |->
        IF i \in {8, 12, 16, 20} THEN Dec(300) ELSE Dec(500)]

\* the pinky tip level with its base joint
FistYs == [OpenYs EXCEPT ![20] = Dec(500)]

ThumbAway == <<Dec(300), Dec(500)>>
ThumbPinch == <<Dec(500), Dec(330)>>
IndexX == Dec(500)

\* (avg_z, palm_width) levels: avg_z falls from each level to the next, and
\* palm_width rises from the second level on and is highest at the first, so
\* levels 1,2,3,4 give a falling depth and levels 2,3,4,1 a growing width
Levels ==
    <<<<Dec(500), Dec(130)>>, <<Dec(490), Dec(100)>>, <<Dec(480), Dec(110)>>,
      <<Dec(470), Dec(120)>>>>

Centre == <<Dec(500), Dec(500)>>

OpenAt(k) == HandData(Centre, ThumbAway, IndexX, OpenYs,
                      Levels[k][2], Levels[k][1])
FistAt(k) == HandData(Centre, ThumbAway, IndexX, FistYs,
                      Levels[k][2], Levels[k][1])
PinchFistAt(k) == HandData(Centre, ThumbPinch, IndexX, FistYs,
                           Levels[k][2], Levels[k][1])

\* hand samples offered to the detector
DetSamples ==
    {OpenAt(k) : k \in 1..4} \cup {FistAt(4), PinchFistAt(4)}

\* ------------------------------------------------------------------------
\*  Program state
\* ------------------------------------------------------------------------
VARIABLES
    state,            \* AppleStateMachine._state (the controller's fsm)
    x, y, z, scale,   \* AppleController.x / y / z / scale
    no_hand_frames,   \* AppleController._no_hand_frames
    call,             \* the last call made: operation, arguments, returns
    pre,              \* the controller as it was when that call began
    hand_state,       \* state left by the last hand-present update
    absent_run,       \* consecutive hand-absent updates since then
    absent_before,    \* TRUE when a hand-absent update came before it
    calls,            \* number of calls counted against the bounds
    buffer,           \* GestureDetector._buffer
    z_smoother,       \* GestureDetector._z_smoother._buf
    w_smoother,       \* GestureDetector._w_smoother._buf
    last_gesture,     \* GestureDetector._last_gesture
    stable_count,     \* GestureDetector._stable_count
    hist,             \* the detect() calls made: raw label, reported label
    ma_buf,           \* MovingAverage._buf of a smoother used on its own
    pushed,           \* values passed to its update() since its last reset()
    apple_win_x,      \* main: apple_win_x
    apple_win_y,      \* main: apple_win_y
    current_cam_x,    \* main: current_cam_x
    current_cam_y,    \* main: current_cam_y
    prev_hand_x,      \* main: prev_hand_x
    prev_hand_y,      \* main: prev_hand_y
    apple_window_visible,  \* main: apple_window_visible
    level,            \* depth level of the right hand's last sample
    obs               \* main: the locals of the last loop iteration

ctlVars ==
    <<state, x, y, z, scale, no_hand_frames, hand_state, absent_run,
      absent_before>>

detVars ==
    <<buffer, z_smoother, w_smoother, last_gesture, stable_count, hist>>

maVars == <<ma_buf, pushed>>

mainVars ==
    <<apple_win_x, apple_win_y, current_cam_x, current_cam_y, prev_hand_x,
      prev_hand_y, apple_window_visible, level, obs>>

vars == <<ctlVars, detVars, maVars, mainVars, call, pre, calls>>

NoArg == "-"

Controller ==
    [state |-> state, x |-> x, y |-> y, z |-> z, scale |-> scale,
     no_hand_frames |-> no_hand_frames]

NoCall == [op |-> "init", arg |-> NoArg, hd |-> None, rets |-> <<>>]

\* main.py keeps window coordinates in pixels; they are held on a lattice of
\* 2^-PxBits pixel and rounded like every other float
PxBits == 4

PxUnit == Pow2(PxBits)

Px(n) == RoundQ(n * PxUnit, 1)

WIN_START_X == 50
WIN_GAP_FAR == 600
WIN_GAP_MIN == 20
WIN_MOVE_SPEED == 20
WIN_DRAG_SENSITIVITY == Dec(1500)

\* the locals of a loop iteration before the first iteration has run
NoFrame ==
    [gesture |-> NoArg, effective_gesture |-> NoArg, right_hand |-> None,
     left_hand |-> None, left_palm_open |-> FALSE,
     left_close_to_right |-> FALSE, is_following |-> FALSE,
     is_snapped |-> FALSE, destroyed |-> FALSE]

\* AppleStateMachine.__init__, AppleController.__init__,
\* GestureDetector.__init__, MovingAverage.__init__ and the set-up of main()
Init ==
    /\ state = "IDLE"
    /\ x = DEFAULT_APPLE_X
    /\ y = DEFAULT_APPLE_Y
    /\ z = DEFAULT_APPLE_Z
    /\ scale = DEFAULT_SCALE
    /\ no_hand_frames = 0
    /\ call = NoCall
    /\ pre = Controller
    /\ hand_state = "IDLE"
    /\ absent_run = 0
    /\ absent_before = FALSE
    /\ calls = 0
    /\ buffer = <<>>
    /\ z_smoother = <<>>
    /\ w_smoother = <<>>
    /\ last_gesture = "none"
    /\ stable_count = 0
    /\ hist = <<>>
    /\ ma_buf = <<>>
    /\ pushed = <<>>
    /\ current_cam_x = Px(WIN_START_X)
    /\ current_cam_y = Px(100)
    /\ apple_win_x = Px(WIN_START_X + CamW + WIN_GAP_FAR)
    /\ apple_win_y = Px(100)
    /\ prev_hand_x = Dec(500)
    /\ prev_hand_y = Dec(500)
    /\ apple_window_visible = TRUE
    /\ level = 0
    /\ obs = NoFrame

\* ------------------------------------------------------------------------
\*  AppleStateMachine driven directly
\* ------------------------------------------------------------------------
Transition(new_state) ==
    /\ calls < MaxCalls
    /\ LET r == transition(state, new_state)
       IN  /\ state' = r.state
           /\ call' = [op |-> "transition", arg |-> new_state, hd |-> None,
                       rets |-> <<r.ret>>]
    /\ pre' = Controller
    /\ calls' = calls + 1
    /\ UNCHANGED <<x, y, z, scale, no_hand_frames, hand_state, absent_run>>
    /\ UNCHANGED absent_before
    /\ UNCHANGED <<detVars, maVars, mainVars>>

Reset ==
    /\ calls < MaxCalls
    /\ state' = reset(state)
    /\ call' = [op |-> "reset", arg |-> NoArg, hd |-> None, rets |-> <<>>]
    /\ pre' = Controller
    /\ calls' = calls + 1
    /\ UNCHANGED <<x, y, z, scale, no_hand_frames, hand_state, absent_run>>
    /\ UNCHANGED absent_before
    /\ UNCHANGED <<detVars, maVars, mainVars>>

NextFSM == (\E t \in AppleState : Transition(t)) \/ Reset

SpecFSM == Init /\ [][NextFSM]_vars

\* ------------------------------------------------------------------------
\*  apple_controller.py
\* ------------------------------------------------------------------------
\* gesture strings the frame loop can pass ("transfer" is not a detector label)
Gestures == {"none", "open_hand", "pull", "grab", "transfer"}

\* hand samples offered to the controller: only palm_center is read there
PalmCenters ==
    {<<Dec(100), Dec(900)>>, <<Unit, 0>>, <<Dec(500), Dec(500)>>}

CtlSamples ==
    {HandData(p, ThumbAway, IndexX, OpenYs, Dec(100), Dec(500)) :
        p \in PalmCenters}

\* mutant: the position is not snapped when GRABBED is entered
pulling_grab_no_snap(c, hd) ==
    LET r1 == transition(c.state, "GRABBED")
        r2 == transition(r1.state, "FOLLOWING")
    IN  [c |-> [c EXCEPT !.state = r2.state], rets |-> <<r1.ret, r2.ret>>]

\* PULLING with gesture "grab": GRABBED, snap, then FOLLOWING in the same call
pulling_grab(c, hd) ==
    LET r1 == transition(c.state, "GRABBED")
        c1 == IF r1.ret
              THEN [c EXCEPT !.state = r1.state,
                             !.x = hd.palm_center[1],
                             !.y = hd.palm_center[2]]
              ELSE [c EXCEPT !.state = r1.state]
        r2 == transition(c1.state, "FOLLOWING")
    IN  [c |-> [c1 EXCEPT !.state = r2.state], rets |-> <<r1.ret, r2.ret>>]

\* one transition attempt, as a controller and the value returned
attempt(c, target) ==
    LET r == transition(c.state, target)
    IN  [c |-> [c EXCEPT !.state = r.state], rets |-> <<r.ret>>]

stay(c) == [c |-> c, rets |-> <<>>]

\* mutant: GRABBED is not advanced to FOLLOWING within the call
gesture_transitions_no_auto_advance(c, gesture, hd) ==
    CASE c.state = "IDLE" ->
            IF gesture = "open_hand" THEN attempt(c, "RESPONDING") ELSE stay(c)
      [] c.state = "RESPONDING" ->
            IF gesture = "pull" THEN attempt(c, "PULLING")
            ELSE IF gesture = "none" THEN attempt(c, "IDLE")
            ELSE stay(c)
      [] c.state = "PULLING" ->
            IF gesture = "grab" THEN attempt(c, "GRABBED")
            ELSE IF gesture \notin {"pull", "open_hand"} THEN attempt(c, "IDLE")
            ELSE stay(c)
      [] c.state = "GRABBED" -> attempt(c, "FOLLOWING")
      [] c.state = "FOLLOWING" ->
            IF gesture = "grab" THEN stay(c) ELSE attempt(c, "IDLE")

\* mutant: Idle with gesture "grab" tries to go to GRABBED at once
gesture_transitions_idle_grab(c, gesture, hd) ==
    CASE c.state = "IDLE" ->
            IF gesture = "open_hand" THEN attempt(c, "RESPONDING")
            ELSE IF gesture = "grab" THEN attempt(c, "GRABBED")
            ELSE stay(c)
      [] c.state = "RESPONDING" ->
            IF gesture = "pull" THEN attempt(c, "PULLING")
            ELSE IF gesture = "none" THEN attempt(c, "IDLE")
            ELSE stay(c)
      [] c.state = "PULLING" ->
            IF gesture = "grab" THEN pulling_grab(c, hd)
            ELSE IF gesture \notin {"pull", "open_hand"} THEN attempt(c, "IDLE")
            ELSE stay(c)
      [] c.state = "GRABBED" -> attempt(c, "FOLLOWING")
      [] c.state = "FOLLOWING" ->
            IF gesture = "grab" THEN stay(c) ELSE attempt(c, "IDLE")

\* AppleController.update, the transition logic of the current state
gesture_transitions(c, gesture, hd) ==
    CASE c.state = "IDLE" ->
            IF gesture = "open_hand" THEN attempt(c, "RESPONDING") ELSE stay(c)
      [] c.state = "RESPONDING" ->
            IF gesture = "pull" THEN attempt(c, "PULLING")
            ELSE IF gesture = "none" THEN attempt(c, "IDLE")
            ELSE stay(c)
      [] c.state = "PULLING" ->
            IF gesture = "grab" THEN pulling_grab(c, hd)
            ELSE IF gesture \notin {"pull", "open_hand"} THEN attempt(c, "IDLE")
            ELSE stay(c)
      [] c.state = "GRABBED" -> attempt(c, "FOLLOWING")
      [] c.state = "FOLLOWING" ->
            IF gesture = "grab" THEN stay(c) ELSE attempt(c, "IDLE")

\* AppleController._update_properties without the floor under the depth
update_properties_no_floor(c, gesture, hd) ==
    CASE c.state = "RESPONDING" ->
            [c EXCEPT !.scale =
                lerp(c.scale, fmul(DEFAULT_SCALE, Dec(1100)), SCALE_LERP)]
      [] c.state = "PULLING" ->
            [c EXCEPT !.z = fsub(c.z, Dec(10)),
                      !.scale = clamp(fadd(c.scale, PULL_SCALE_STEP),
                                      MIN_SCALE, MAX_SCALE)]
      [] c.state = "FOLLOWING" ->
            [c EXCEPT !.x = lerp(c.x, hd.palm_center[1], Unit),
                      !.y = lerp(c.y, hd.palm_center[2], Unit)]
      [] c.state = "IDLE" ->
            [c EXCEPT !.x = lerp(c.x, DEFAULT_APPLE_X,
                                 fmul(POSITION_LERP, Dec(500))),
                      !.y = lerp(c.y, DEFAULT_APPLE_Y,
                                 fmul(POSITION_LERP, Dec(500))),
                      !.scale = lerp(c.scale, DEFAULT_SCALE, SCALE_LERP),
                      !.z = lerp(c.z, DEFAULT_APPLE_Z, SCALE_LERP)]
      [] OTHER -> c

\* Following smooths the position like the other branches
update_properties_following_lags(c, gesture, hd) ==
    CASE c.state = "RESPONDING" ->
            [c EXCEPT !.scale =
                lerp(c.scale, fmul(DEFAULT_SCALE, Dec(1100)), SCALE_LERP)]
      [] c.state = "PULLING" ->
            [c EXCEPT !.z = Max2(0, fsub(c.z, Dec(10))),
                      !.scale = clamp(fadd(c.scale, PULL_SCALE_STEP),
                                      MIN_SCALE, MAX_SCALE)]
      [] c.state = "FOLLOWING" ->
            [c EXCEPT !.x = lerp(c.x, hd.palm_center[1], POSITION_LERP),
                      !.y = lerp(c.y, hd.palm_center[2], POSITION_LERP)]
      [] c.state = "IDLE" ->
            [c EXCEPT !.x = lerp(c.x, DEFAULT_APPLE_X,
                                 fmul(POSITION_LERP, Dec(500))),
                      !.y = lerp(c.y, DEFAULT_APPLE_Y,
                                 fmul(POSITION_LERP, Dec(500))),
                      !.scale = lerp(c.scale, DEFAULT_SCALE, SCALE_LERP),
                      !.z = lerp(c.z, DEFAULT_APPLE_Z, SCALE_LERP)]
      [] OTHER -> c

\* Responding also lets the position decay toward the default centre
update_properties_responding_decays(c, gesture, hd) ==
    CASE c.state = "RESPONDING" ->
            [c EXCEPT !.x = lerp(c.x, DEFAULT_APPLE_X,
                                 fmul(POSITION_LERP, Dec(500))),
                      !.y = lerp(c.y, DEFAULT_APPLE_Y,
                                 fmul(POSITION_LERP, Dec(500))),
                      !.scale =
                lerp(c.scale, fmul(DEFAULT_SCALE, Dec(1100)), SCALE_LERP)]
      [] c.state = "PULLING" ->
            [c EXCEPT !.z = Max2(0, fsub(c.z, Dec(10))),
                      !.scale = clamp(fadd(c.scale, PULL_SCALE_STEP),
                                      MIN_SCALE, MAX_SCALE)]
      [] c.state = "FOLLOWING" ->
            [c EXCEPT !.x = lerp(c.x, hd.palm_center[1], Unit),
                      !.y = lerp(c.y, hd.palm_center[2], Unit)]
      [] c.state = "IDLE" ->
            [c EXCEPT !.x = lerp(c.x, DEFAULT_APPLE_X,
                                 fmul(POSITION_LERP, Dec(500))),
                      !.y = lerp(c.y, DEFAULT_APPLE_Y,
                                 fmul(POSITION_LERP, Dec(500))),
                      !.scale = lerp(c.scale, DEFAULT_SCALE, SCALE_LERP),
                      !.z = lerp(c.z, DEFAULT_APPLE_Z, SCALE_LERP)]
      [] OTHER -> c

\* Following also lets scale and depth ease back to their defaults
update_properties_following_eases(c, gesture, hd) ==
    CASE c.state = "RESPONDING" ->
            [c EXCEPT !.scale =
                lerp(c.scale, fmul(DEFAULT_SCALE, Dec(1100)), SCALE_LERP)]
      [] c.state = "PULLING" ->
            [c EXCEPT !.z = Max2(0, fsub(c.z, Dec(10))),
                      !.scale = clamp(fadd(c.scale, PULL_SCALE_STEP),
                                      MIN_SCALE, MAX_SCALE)]
      [] c.state = "FOLLOWING" ->
            [c EXCEPT !.x = lerp(c.x, hd.palm_center[1], Unit),
                      !.y = lerp(c.y, hd.palm_center[2], Unit),
                      !.scale = lerp(c.scale, DEFAULT_SCALE, SCALE_LERP),
                      !.z = lerp(c.z, DEFAULT_APPLE_Z, SCALE_LERP)]
      [] c.state = "IDLE" ->
            [c EXCEPT !.x = lerp(c.x, DEFAULT_APPLE_X,
                                 fmul(POSITION_LERP, Dec(500))),
                      !.y = lerp(c.y, DEFAULT_APPLE_Y,
                                 fmul(POSITION_LERP, Dec(500))),
                      !.scale = lerp(c.scale, DEFAULT_SCALE, SCALE_LERP),
                      !.z = lerp(c.z, DEFAULT_APPLE_Z, SCALE_LERP)]
      [] OTHER -> c

\* AppleController._update_properties
update_properties(c, gesture, hd) ==
    CASE c.state = "RESPONDING" ->
            [c EXCEPT !.scale =
                lerp(c.scale, fmul(DEFAULT_SCALE, Dec(1100)), SCALE_LERP)]
      [] c.state = "PULLING" ->
            [c EXCEPT !.z = Max2(0, fsub(c.z, Dec(10))),
                      !.scale = clamp(fadd(c.scale, PULL_SCALE_STEP),
                                      MIN_SCALE, MAX_SCALE)]
      [] c.state = "FOLLOWING" ->
            [c EXCEPT !.x = lerp(c.x, hd.palm_center[1], Unit),
                      !.y = lerp(c.y, hd.palm_center[2], Unit)]
      [] c.state = "IDLE" ->
            [c EXCEPT !.x = lerp(c.x, DEFAULT_APPLE_X,
                                 fmul(POSITION_LERP, Dec(500))),
                      !.y = lerp(c.y, DEFAULT_APPLE_Y,
                                 fmul(POSITION_LERP, Dec(500))),
                      !.scale = lerp(c.scale, DEFAULT_SCALE, SCALE_LERP),
                      !.z = lerp(c.z, DEFAULT_APPLE_Z, SCALE_LERP)]
      [] OTHER -> c

\* AppleController._reset_to_idle
reset_to_idle(c) == [c EXCEPT !.state = reset(c.state)]

\* mutant: the timeout fires one frame late
hand_lost_late(c) ==
    LET c1 == [c EXCEPT !.no_hand_frames = c.no_hand_frames + 1]
    IN  IF c1.no_hand_frames > IDLE_TIMEOUT_FRAMES
        THEN reset_to_idle(c1) ELSE c1

\* the timeout also starts the decay of the properties
hand_lost_drifts(c) ==
    LET c1 == [c EXCEPT !.no_hand_frames = c.no_hand_frames + 1]
    IN  IF c1.no_hand_frames >= IDLE_TIMEOUT_FRAMES
        THEN update_properties(reset_to_idle(c1), "none", None) ELSE c1

\* AppleController.update with no hand sample
hand_lost(c) ==
    LET c1 == [c EXCEPT !.no_hand_frames = c.no_hand_frames + 1]
    IN  IF c1.no_hand_frames >= IDLE_TIMEOUT_FRAMES
        THEN reset_to_idle(c1) ELSE c1

\* a hand sample does not set the no-hand counter back
hand_present_keeps_counter(c, gesture, hd) ==
    LET t == gesture_transitions(c, gesture, hd)
    IN  [c |-> update_properties(t.c, gesture, hd), rets |-> t.rets]

\* the property rule of the state before the transition logic is applied
hand_present_rule_of_old_state(c, gesture, hd) ==
    LET c0 == [c EXCEPT !.no_hand_frames = 0]
        t  == gesture_transitions(c0, gesture, hd)
        u  == update_properties([t.c EXCEPT !.state = c.state], gesture, hd)
    IN  [c |-> [u EXCEPT !.state = t.c.state], rets |-> t.rets]

\* AppleController.update with a hand sample
hand_present(c, gesture, hd) ==
    LET c0 == [c EXCEPT !.no_hand_frames = 0]
        t  == gesture_transitions(c0, gesture, hd)
    IN  [c |-> update_properties(t.c, gesture, hd), rets |-> t.rets]

SetControllerTo(c) ==
    /\ state = c.state
    /\ x = c.x
    /\ y = c.y
    /\ z = c.z
    /\ scale = c.scale
    /\ no_hand_frames = c.no_hand_frames

SetController(c) ==
    /\ state' = c.state
    /\ x' = c.x
    /\ y' = c.y
    /\ z' = c.z
    /\ scale' = c.scale
    /\ no_hand_frames' = c.no_hand_frames

\* AppleController.update(gesture, hand_data)
Update(gesture, hd) ==
    /\ pre' = Controller
    /\ UNCHANGED <<detVars, maVars, mainVars>>
    /\ IF hd = None
       THEN /\ no_hand_frames < MaxNoHand
            /\ SetController(hand_lost(Controller))
            /\ call' = [op |-> "update", arg |-> gesture, hd |-> None,
                        rets |-> <<>>]
            /\ absent_run' = absent_run + 1
            /\ UNCHANGED absent_before
            /\ UNCHANGED <<hand_state, calls>>
       ELSE /\ calls < MaxHandFrames
            /\ LET r == hand_present(Controller, gesture, hd)
               IN  /\ SetController(r.c)
                   /\ call' = [op |-> "update", arg |-> gesture, hd |-> hd,
                               rets |-> r.rets]
                   /\ hand_state' = r.c.state
            /\ absent_run' = 0
            /\ absent_before' = (absent_before \/ absent_run > 0)
            /\ calls' = calls + 1

NextCtl == \E g \in Gestures, hd \in CtlSamples \cup {None} : Update(g, hd)

SpecCtl == Init /\ [][NextCtl]_vars

\* ------------------------------------------------------------------------
\*  gesture_detector.py
\* ------------------------------------------------------------------------
Labels == {"none", "open_hand", "pull", "grab"}

Detector ==
    [buffer |-> buffer, z_smoother |-> z_smoother, w_smoother |-> w_smoother,
     last_gesture |-> last_gesture, stable_count |-> stable_count]

\* mutant: the grab test is not strict
is_grab_inclusive(hd) ==
    distance(hd.thumb_tip, hd.index_tip) <= GRAB_THRESHOLD

\* GestureDetector._is_grab
is_grab(hd) == distance(hd.thumb_tip, hd.index_tip) < GRAB_THRESHOLD

\* GestureDetector._fingers_extended: the loop over zip(tips, mcps) from i on
RECURSIVE fingers_extended_from(_, _)
fingers_extended_from(hd, i) ==
    IF i > Len(FingerTips) THEN TRUE
    ELSE IF hd.all_landmarks[FingerTips[i]].y >= hd.all_landmarks[FingerMcps[i]].y
         THEN FALSE
         ELSE fingers_extended_from(hd, i + 1)

fingers_extended(hd) == fingers_extended_from(hd, 1)

\* vals[-n:]
LastN(vals, n) ==
    IF Len(vals) <= n THEN vals
    ELSE SubSeq(vals, Len(vals) - n + 1, Len(vals))

\* [recent[i+1] - recent[i] for i in range(len(recent) - 1)]
Deltas(recent) ==
    [i \in 1..(Len(recent) - 1) |-> fsub(recent[i + 1], recent[i])]

\* the pull test starts with PULL_FRAMES_REQUIRED values, one too few
is_pull_short_history(z_buf, w_buf) ==
    LET z_vals == ma_values(z_buf)
        w_vals == ma_values(w_buf)
    IN  IF Len(z_vals) < PULL_FRAMES_REQUIRED THEN FALSE
        ELSE LET z_deltas == Deltas(LastN(z_vals, PULL_FRAMES_REQUIRED + 1))
                 w_deltas == Deltas(LastN(w_vals, PULL_FRAMES_REQUIRED + 1))
                 z_consistent ==
                    \A i \in DOMAIN z_deltas :
                        z_deltas[i] < PULL_Z_DELTA_THRESHOLD
                 w_consistent ==
                    \A i \in DOMAIN w_deltas :
                        w_deltas[i] > PULL_W_DELTA_THRESHOLD
             IN  z_consistent \/ w_consistent

\* the pull test asks for both trends at once
is_pull_needs_both(z_buf, w_buf) ==
    LET z_vals == ma_values(z_buf)
        w_vals == ma_values(w_buf)
    IN  IF Len(z_vals) < PULL_FRAMES_REQUIRED + 1 THEN FALSE
        ELSE LET z_deltas == Deltas(LastN(z_vals, PULL_FRAMES_REQUIRED + 1))
                 w_deltas == Deltas(LastN(w_vals, PULL_FRAMES_REQUIRED + 1))
                 z_consistent ==
                    \A i \in DOMAIN z_deltas :
                        z_deltas[i] < PULL_Z_DELTA_THRESHOLD
                 w_consistent ==
                    \A i \in DOMAIN w_deltas :
                        w_deltas[i] > PULL_W_DELTA_THRESHOLD
             IN  z_consistent /\ w_consistent

\* GestureDetector._is_pull
is_pull(z_buf, w_buf) ==
    LET z_vals == ma_values(z_buf)
        w_vals == ma_values(w_buf)
    IN  IF Len(z_vals) < PULL_FRAMES_REQUIRED + 1 THEN FALSE
        ELSE LET z_deltas == Deltas(LastN(z_vals, PULL_FRAMES_REQUIRED + 1))
                 w_deltas == Deltas(LastN(w_vals, PULL_FRAMES_REQUIRED + 1))
                 z_consistent ==
                    \A i \in DOMAIN z_deltas :
                        z_deltas[i] < PULL_Z_DELTA_THRESHOLD
                 w_consistent ==
                    \A i \in DOMAIN w_deltas :
                        w_deltas[i] > PULL_W_DELTA_THRESHOLD
             IN  z_consistent \/ w_consistent

\* mutant: the open-hand test is made before the grab test
classify_fingers_first(hd, z_buf, w_buf) ==
    IF ~fingers_extended(hd) THEN "none"
    ELSE IF is_grab(hd) THEN "grab"
    ELSE IF is_pull(z_buf, w_buf) THEN "pull"
    ELSE "open_hand"

\* GestureDetector._classify
classify(hd, z_buf, w_buf) ==
    IF is_grab(hd) THEN "grab"
    ELSE IF ~fingers_extended(hd) THEN "none"
    ELSE IF is_pull(z_buf, w_buf) THEN "pull"
    ELSE "open_hand"

\* mutant: the label is reported one frame late and nothing in between
hysteresis_off_by_one(last, count, raw) ==
    LET l == raw
        c == IF raw = last THEN count + 1 ELSE 1
    IN  [last_gesture |-> l, stable_count |-> c,
         out |-> IF c > GESTURE_HYSTERESIS THEN raw ELSE "none"]

\* mutant: the previous label is held while the new one is not yet stable
hysteresis_holds_previous(last, count, raw) ==
    LET l == raw
        c == IF raw = last THEN count + 1 ELSE 1
    IN  [last_gesture |-> l, stable_count |-> c,
         out |-> IF c >= GESTURE_HYSTERESIS THEN raw ELSE last]

\* mutant: the raw label is reported at once
hysteresis_none(last, count, raw) ==
    LET l == raw
        c == IF raw = last THEN count + 1 ELSE 1
    IN  [last_gesture |-> l, stable_count |-> c, out |-> raw]

\* mutant: a change of the raw label does not restart the counter
hysteresis_keeps_count(last, count, raw) ==
    LET l == raw
        c == count + 1
    IN  [last_gesture |-> l, stable_count |-> c,
         out |-> IF c >= GESTURE_HYSTERESIS THEN raw
                 ELSE IF c > 1 THEN l ELSE "none"]

\* GestureDetector.detect, the hysteresis step
hysteresis(last, count, raw) ==
    LET l == raw
        c == IF raw = last THEN count + 1 ELSE 1
    IN  [last_gesture |-> l, stable_count |-> c,
         out |-> IF c >= GESTURE_HYSTERESIS THEN raw
                 ELSE IF c > 1 THEN l ELSE "none"]

\* GestureDetector.detect: the detector afterwards, raw and reported label
detect(d, hd) ==
    LET b   == deque_append(d.buffer, hd, 12)
        zs  == ma_update(d.z_smoother, 6, hd.avg_z).buf
        ws  == ma_update(d.w_smoother, 6, hd.palm_width).buf
        raw == classify(hd, zs, ws)
        h   == hysteresis(d.last_gesture, d.stable_count, raw)
    IN  [d |-> [buffer |-> b, z_smoother |-> zs, w_smoother |-> ws,
                last_gesture |-> h.last_gesture,
                stable_count |-> h.stable_count],
         raw |-> raw, out |-> h.out]

\* mutant: reset() leaves the hysteresis label and counter as they were
detector_reset_keeps_label(d) ==
    [buffer |-> <<>>, z_smoother |-> ma_reset(d.z_smoother),
     w_smoother |-> ma_reset(d.w_smoother),
     last_gesture |-> d.last_gesture, stable_count |-> d.stable_count]

\* GestureDetector.__init__: a freshly constructed detector
NewDetector ==
    [buffer |-> <<>>, z_smoother |-> <<>>, w_smoother |-> <<>>,
     last_gesture |-> "none", stable_count |-> 0]

\* GestureDetector.reset
detector_reset(d) ==
    [buffer |-> <<>>, z_smoother |-> ma_reset(d.z_smoother),
     w_smoother |-> ma_reset(d.w_smoother),
     last_gesture |-> "none", stable_count |-> 0]

SetDetector(d) ==
    /\ buffer' = d.buffer
    /\ z_smoother' = d.z_smoother
    /\ w_smoother' = d.w_smoother
    /\ last_gesture' = d.last_gesture
    /\ stable_count' = d.stable_count

\* TRUE when no detect() was made since construction or the last reset()
FreshRun == call.op \in {"init", "detector_reset"}

\* GestureDetector.detect(hand_data)
Detect(hd) ==
    /\ calls < MaxDetect
    /\ LET r == detect(Detector, hd)
       IN  /\ SetDetector(r.d)
           /\ hist' = Append(hist, [raw |-> r.raw, out |-> r.out,
                                    fresh |-> FreshRun])
           /\ call' = [op |-> "detect", arg |-> NoArg, hd |-> hd,
                       rets |-> <<r.out>>]
    /\ calls' = calls + 1
    /\ UNCHANGED <<ctlVars, maVars, mainVars, pre>>

\* GestureDetector.reset()
DetectorReset ==
    /\ call.op = "detect"
    /\ SetDetector(detector_reset(Detector))
    /\ call' = [op |-> "detector_reset", arg |-> NoArg, hd |-> None,
                rets |-> <<>>]
    /\ UNCHANGED <<ctlVars, maVars, mainVars, pre, calls, hist>>

NextDet == (\E hd \in DetSamples : Detect(hd)) \/ DetectorReset

SpecDet == Init /\ [][NextDet]_vars

\* ------------------------------------------------------------------------
\*  Claims about AppleStateMachine (SpecFSM)
\* ------------------------------------------------------------------------
\* the edges of the static table, as the design states them
TableEdges ==
    {<<"IDLE", "RESPONDING">>,
     <<"RESPONDING", "PULLING">>, <<"RESPONDING", "IDLE">>,
     <<"PULLING", "GRABBED">>, <<"PULLING", "IDLE">>,
     <<"GRABBED", "FOLLOWING">>, <<"GRABBED", "IDLE">>,
     <<"FOLLOWING", "IDLE">>}

\* C1: after any sequence of transition() and reset() calls the state is one
\* of the five enumerated states, and every call that changed the state
\* (reset() included) moved it along an edge of the static table.
C1_EdgesOnly ==
    /\ state \in {"IDLE", "RESPONDING", "PULLING", "GRABBED", "FOLLOWING"}
    /\ (state # pre.state => <<pre.state, state>> \in TableEdges)

C1_Witness ==
    /\ call.op = "reset"
    /\ pre.state = "FOLLOWING"
    /\ state = "IDLE"

\* C2: transition(t) from s returns success iff t = s or t is allowed from s;
\* on success the state is t, on failure it is still s.  From IDLE the
\* targets PULLING, GRABBED and FOLLOWING fail and RESPONDING succeeds.
C2_TransitionResult ==
    call.op = "transition" =>
        LET s  == pre.state
            t  == call.arg
            ok == call.rets[1]
        IN  /\ ok <=> (t = s \/ <<s, t>> \in TableEdges)
            /\ ok => state = t
            /\ ~ok => state = s
            /\ (s = "IDLE" /\ t \in {"PULLING", "GRABBED", "FOLLOWING"})
                    => (~ok /\ state = "IDLE")
            /\ (s = "IDLE" /\ t = "RESPONDING") => ok

C2_Witness ==
    /\ call.op = "transition"
    /\ pre.state = "IDLE"
    /\ call.arg = "FOLLOWING"
    /\ call.rets = <<FALSE>>
    /\ state = "IDLE"

\* C3: a new AppleStateMachine is in IDLE, and reset() leaves the state IDLE
\* whichever of the five states it was called in.
C3_ResetToIdle ==
    /\ call.op = "init" => state = "IDLE"
    /\ call.op = "reset" => state = "IDLE"

C3_Witness ==
    /\ call.op = "reset"
    /\ pre.state = "GRABBED"
    /\ state = "IDLE"

\* ------------------------------------------------------------------------
\*  Claims about AppleController (SpecCtl)
\* ------------------------------------------------------------------------
HandPresentCall == call.op = "update" /\ call.hd # None

\* C4: one update(gesture "grab", hand present) in PULLING returns in
\* FOLLOWING, both PULLING->GRABBED and GRABBED->FOLLOWING having succeeded
\* inside the call, with (x, y) exactly the sample's palm-center.
C4_GrabSnaps ==
    (HandPresentCall /\ call.arg = "grab" /\ pre.state = "PULLING") =>
        /\ state = "FOLLOWING"
        /\ call.rets = <<TRUE, TRUE>>
        /\ x = call.hd.palm_center[1]
        /\ y = call.hd.palm_center[2]

C4_Witness ==
    /\ HandPresentCall
    /\ call.arg = "grab"
    /\ pre.state = "PULLING"
    /\ state = "FOLLOWING"
    /\ pre.x # call.hd.palm_center[1]
    /\ x = call.hd.palm_center[1]

\* C5: whatever the sequence of update calls, the state observed after a
\* call returns is never GRABBED.
C5_NeverGrabbed == state # "GRABBED"

C5_Witness ==
    /\ call.op = "update"
    /\ call.rets = <<TRUE, TRUE>>
    /\ state = "FOLLOWING"

\* C6: after a hand-present update that left state s, the first
\* IDLE_TIMEOUT_FRAMES - 1 consecutive hand-absent updates leave the state s
\* and the IDLE_TIMEOUT_FRAMES-th leaves it IDLE.
C6_IdleTimeout ==
    /\ absent_run \in 1..(IDLE_TIMEOUT_FRAMES - 1) => state = hand_state
    /\ absent_run = IDLE_TIMEOUT_FRAMES => state = "IDLE"

C6_Witness ==
    /\ absent_run = IDLE_TIMEOUT_FRAMES
    /\ hand_state = "FOLLOWING"
    /\ pre.state = "FOLLOWING"
    /\ state = "IDLE"

\* ------------------------------------------------------------------------
\*  Claims about GestureDetector (SpecDet)
\* ------------------------------------------------------------------------
\* detect() calls i-n+1 .. i were made with no reset() between them
SameRun(i, n) == \A k \in (i - n + 2)..i : ~hist[k].fresh

\* detect() calls i-n+1 .. i all classified the raw label of call i
SameRaw(i, n) == \A k \in (i - n + 1)..i : hist[k].raw = hist[i].raw

\* C7: when the raw label is L on GESTURE_HYSTERESIS or more consecutive
\* detect() calls, the GESTURE_HYSTERESIS-th of them reports L and so does
\* every later call of the run, whatever came before.
C7_StableRunReported ==
    \A i \in GESTURE_HYSTERESIS..Len(hist) :
        (SameRun(i, GESTURE_HYSTERESIS) /\ SameRaw(i, GESTURE_HYSTERESIS))
            => hist[i].out = hist[i].raw

C7_Witness ==
    \E i \in 2..Len(hist) :
        /\ hist[i - 1].out # "pull"
        /\ SameRun(i, GESTURE_HYSTERESIS)
        /\ SameRaw(i, GESTURE_HYSTERESIS)
        /\ hist[i].raw = "pull"
        /\ hist[i].out = "pull"

\* call i is a one-frame spike: the raw label was stable on the
\* GESTURE_HYSTERESIS calls before it, differs at call i, and is back at i+1
Spike(i) ==
    /\ i - GESTURE_HYSTERESIS >= 1
    /\ i + 1 <= Len(hist)
    /\ SameRun(i + 1, GESTURE_HYSTERESIS + 2)
    /\ SameRaw(i - 1, GESTURE_HYSTERESIS)
    /\ hist[i].raw # hist[i - 1].raw
    /\ hist[i + 1].raw = hist[i - 1].raw

\* C8 as stated: at a one-frame spike of raw label B inside a stable raw
\* label A, detect() reports none, which is neither A nor B.
C8_SpikeNeitherLabel ==
    \A i \in 1..Len(hist) :
        Spike(i) =>
            /\ hist[i].out = "none"
            /\ hist[i].out # hist[i - 1].raw
            /\ hist[i].out # hist[i].raw

\* C8 (amended): at a one-frame spike of raw label B inside a stable raw
\* label A, detect() reports none at the spike frame; that is neither A nor
\* B when both are labels other than none.
C8_SpikeReportsNone ==
    \A i \in 1..Len(hist) :
        Spike(i) =>
            /\ hist[i].out = "none"
            /\ ("none" \notin {hist[i - 1].raw, hist[i].raw}
                    => hist[i].out \notin {hist[i - 1].raw, hist[i].raw})

C8_Witness ==
    \E i \in 1..Len(hist) :
        /\ Spike(i)
        /\ hist[i - 1].raw = "open_hand"
        /\ hist[i - 1].out = "open_hand"
        /\ hist[i].raw = "grab"
        /\ hist[i].out = "none"

\* the reported label changes at call i
Changed(i) == i >= 2 /\ hist[i].out # hist[i - 1].out

\* C9 as stated: once the reported label has changed, it keeps its new value
\* for at least GESTURE_HYSTERESIS consecutive frames before changing again.
C9_NoFastFlicker ==
    \A i, j \in 1..Len(hist) :
        (i < j /\ Changed(i) /\ Changed(j)) => j - i >= GESTURE_HYSTERESIS

\* C9 (amended): two different labels other than none are never reported
\* less than GESTURE_HYSTERESIS frames apart, so the reported stream never
\* goes from one such label directly to another; a report may still last a
\* single frame before it falls back to none.
C9_NoDirectSwitch ==
    \A i, j \in 1..Len(hist) :
        (/\ i < j
         /\ hist[i].out # "none"
         /\ hist[j].out # "none"
         /\ hist[i].out # hist[j].out) => j - i >= GESTURE_HYSTERESIS

C9_Witness ==
    \E i \in 1..Len(hist) :
        /\ i + GESTURE_HYSTERESIS <= Len(hist)
        /\ hist[i].out = "open_hand"
        /\ hist[i + 1].out = "none"
        /\ hist[i + GESTURE_HYSTERESIS].out = "grab"

\* the sample's thumb-index pinch test, on its own
PinchTest(hd) == distance(hd.thumb_tip, hd.index_tip) < GRAB_THRESHOLD

\* some finger of the sample fails the extension test
SomeFingerCurled(hd) ==
    \E f \in {<<8, 5>>, <<12, 9>>, <<16, 13>>, <<20, 17>>} :
        hd.all_landmarks[f[1]].y >= hd.all_landmarks[f[2]].y

\* C10: the raw label is grab whenever the pinch test holds; otherwise none
\* whenever some finger fails the extension test; otherwise pull when the
\* pull test holds; otherwise open_hand; it is always one of the four labels.
C10_ClassifyPriority ==
    call.op = "detect" =>
        LET hd   == call.hd
            raw  == hist[Len(hist)].raw
            pull == is_pull(z_smoother, w_smoother)
        IN  /\ raw \in {"none", "open_hand", "pull", "grab"}
            /\ PinchTest(hd) => raw = "grab"
            /\ (~PinchTest(hd) /\ SomeFingerCurled(hd)) => raw = "none"
            /\ (~PinchTest(hd) /\ ~SomeFingerCurled(hd) /\ pull)
                    => raw = "pull"
            /\ (~PinchTest(hd) /\ ~SomeFingerCurled(hd) /\ ~pull)
                    => raw = "open_hand"

C10_Witness ==
    /\ call.op = "detect"
    /\ PinchTest(call.hd)
    /\ SomeFingerCurled(call.hd)
    /\ is_pull(z_smoother, w_smoother)
    /\ hist[Len(hist)].raw = "grab"

\* ------------------------------------------------------------------------
\*  The grab test on its own (SpecGrab)
\* ------------------------------------------------------------------------
\* thumb-to-index offsets around GRAB_THRESHOLD, and two near its diagonal
GrabGrid ==
    {0, (GRAB_THRESHOLD * 707) \div 1000, (GRAB_THRESHOLD * 707) \div 1000 + 1}
        \cup {GRAB_THRESHOLD + k : k \in (-GridSpan)..GridSpan}

\* a hand whose index tip is at the origin and whose thumb tip is at (dx, dy)
GrabProbe(dx, dy) ==
    HandData(Centre, <<dx, dy>>, 0, [OpenYs EXCEPT ![8] = 0],
             Dec(100), Dec(500))

\* GestureDetector._is_grab(hd), a static method: no state is touched
IsGrab(hd) ==
    /\ call' = [op |-> "is_grab", arg |-> NoArg, hd |-> hd,
                rets |-> <<is_grab(hd)>>]
    /\ UNCHANGED <<ctlVars, detVars, maVars, mainVars, pre, calls>>

NextGrab == \E dx \in GrabGrid, dy \in GrabGrid : IsGrab(GrabProbe(dx, dy))

SpecGrab == Init /\ [][NextGrab]_vars

\* C11: the grab test is strict: a thumb-index distance exactly equal to
\* GRAB_THRESHOLD is not a grab, and every distance below it is a grab.
C11_StrictGrab ==
    call.op = "is_grab" =>
        LET d  == distance(call.hd.thumb_tip, call.hd.index_tip)
            dx == call.hd.thumb_tip[1] - call.hd.index_tip[1]
            dy == call.hd.thumb_tip[2] - call.hd.index_tip[2]
            g  == call.rets[1]
        IN  /\ d = GRAB_THRESHOLD => ~g
            /\ d < GRAB_THRESHOLD => g
            \* along an axis the distance is the offset itself
            /\ (dy = 0 /\ dx = GRAB_THRESHOLD) => ~g
            /\ (dy = 0 /\ dx < GRAB_THRESHOLD) => g
            /\ (dx = 0 /\ dy = GRAB_THRESHOLD) => ~g
            /\ (dx = 0 /\ dy < GRAB_THRESHOLD) => g

C11_Witness ==
    /\ call.op = "is_grab"
    /\ call.hd.thumb_tip = <<GRAB_THRESHOLD, 0>>
    /\ call.hd.index_tip = <<0, 0>>
    /\ distance(call.hd.thumb_tip, call.hd.index_tip) = GRAB_THRESHOLD
    /\ call.rets = <<FALSE>>

\* ------------------------------------------------------------------------
\*  More claims about GestureDetector (SpecDet)
\* ------------------------------------------------------------------------
\* C12: after reset() the sample buffer, both smoother buffers, the last
\* label and the stability counter equal their values at construction, and
\* detect() then does on every sample what it does in a freshly constructed
\* GestureDetector (same label reported, same detector left behind), so the
\* labels reported for every following sequence of samples are the same.
C12_ResetIsFresh ==
    call.op = "detector_reset" =>
        /\ buffer = <<>>
        /\ z_smoother = <<>>
        /\ w_smoother = <<>>
        /\ last_gesture = "none"
        /\ stable_count = 0
        /\ \A hd \in DetSamples :
                detect(Detector, hd) = detect(NewDetector, hd)

C12_Witness ==
    /\ call.op = "detector_reset"
    /\ Len(hist) >= 2
    /\ hist[Len(hist)].out = "grab"
    /\ last_gesture = "none"
    /\ stable_count = 0
    /\ buffer = <<>>

\* ------------------------------------------------------------------------
\*  utils.MovingAverage on its own (SpecMA)
\* ------------------------------------------------------------------------
\* values offered to the smoother
MaValues == {Dec(100), Dec(200), Dec(700)}

MaUpdate(v) ==
    /\ calls < MaxPush
    /\ LET r == ma_update(ma_buf, MaWindow, v)
       IN  /\ ma_buf' = r.buf
           /\ call' = [op |-> "ma_update", arg |-> NoArg, hd |-> None,
                       rets |-> <<r.avg>>]
    /\ pushed' = Append(pushed, v)
    /\ calls' = calls + 1
    /\ UNCHANGED <<ctlVars, detVars, mainVars, pre>>

MaReset ==
    /\ call.op = "ma_update"
    /\ ma_buf' = ma_reset(ma_buf)
    /\ pushed' = <<>>
    /\ call' = [op |-> "ma_reset", arg |-> NoArg, hd |-> None, rets |-> <<>>]
    /\ UNCHANGED <<ctlVars, detVars, mainVars, pre, calls>>

NextMA == (\E v \in MaValues : MaUpdate(v)) \/ MaReset

SpecMA == Init /\ [][NextMA]_vars

\* the last min(n, W) of the values pushed since the last reset
MaWindowOf(vals) == LastN(vals, Min2(Len(vals), MaWindow))

\* C13: a MovingAverage of capacity W holds exactly the last min(n, W) values
\* pushed since its most recent reset, oldest first (so never more than W,
\* and the oldest is the one evicted), and update returns their mean: their
\* sum divided by their number.
C13_MovingAverage ==
    /\ Len(ma_buf) <= MaWindow
    /\ ma_values(ma_buf) = MaWindowOf(pushed)
    /\ call.op = "ma_update" =>
           call.rets = <<RoundQ(fsum(MaWindowOf(pushed)),
                                Len(MaWindowOf(pushed)))>>

\* an update after the buffer was full: the oldest value has been evicted,
\* after an earlier reset
C13_Witness ==
    /\ call.op = "ma_update"
    /\ Len(pushed) = MaWindow + 1
    /\ calls > Len(pushed)
    /\ pushed[1] = Dec(700)
    /\ \A i \in 2..Len(pushed) : pushed[i] = Dec(100)
    /\ ma_buf = [i \in 1..MaWindow |-> Dec(100)]

\* ------------------------------------------------------------------------
\*  AppleController after long pulls (SpecLong)
\* ------------------------------------------------------------------------
\* AppleController.__init__
NewController ==
    [state |-> "IDLE", x |-> DEFAULT_APPLE_X, y |-> DEFAULT_APPLE_Y,
     z |-> DEFAULT_APPLE_Z, scale |-> DEFAULT_SCALE, no_hand_frames |-> 0]

RunSample == HandData(Centre, ThumbAway, IndexX, OpenYs, Dec(100), Dec(500))

\* the controller c after n more hand-present updates: "open_hand" while it
\* is IDLE, "pull" otherwise
RECURSIVE PullRun(_, _)
PullRun(c, n) ==
    IF c.state = "IDLE" /\ n > 0
    THEN PullRun(hand_present(c, "open_hand", RunSample).c, n - 1)
    ELSE IF n > 0
         THEN PullRun(hand_present(c, "pull", RunSample).c, n - 1)
         ELSE c

\* controllers reached by longer and longer pulls, ChunkLen updates apart
Pulled1 == PullRun(NewController, ChunkLen)
Pulled2 == PullRun(Pulled1, ChunkLen)
Pulled3 == PullRun(Pulled2, ChunkLen)
Pulled4 == PullRun(Pulled3, ChunkLen)
Pulled5 == PullRun(Pulled4, ChunkLen)
Pulled6 == PullRun(Pulled5, ChunkLen)
Pulled7 == PullRun(Pulled6, ChunkLen)
Pulled8 == PullRun(Pulled7, ChunkLen)

\* the controllers the behaviours start from
LongRuns == {NewController, Pulled4, Pulled8}

InitLong ==
    /\ \E c \in LongRuns : SetControllerTo(c)
    /\ call = NoCall
    /\ pre = Controller
    /\ hand_state = state
    /\ absent_run = 0
    /\ absent_before = FALSE
    /\ calls = MaxHandFrames - LongFrames
    /\ buffer = <<>>
    /\ z_smoother = <<>>
    /\ w_smoother = <<>>
    /\ last_gesture = "none"
    /\ stable_count = 0
    /\ hist = <<>>
    /\ ma_buf = <<>>
    /\ pushed = <<>>
    /\ current_cam_x = Px(WIN_START_X)
    /\ current_cam_y = Px(100)
    /\ apple_win_x = Px(WIN_START_X + CamW + WIN_GAP_FAR)
    /\ apple_win_y = Px(100)
    /\ prev_hand_x = Dec(500)
    /\ prev_hand_y = Dec(500)
    /\ apple_window_visible = TRUE
    /\ level = 0
    /\ obs = NoFrame

SpecLong == InitLong /\ [][NextCtl]_vars

\* an update with gesture "none" that begins and ends in IDLE
IdleNoneCall ==
    call.op = "update" /\ call.arg = "none"
        /\ pre.state = "IDLE" /\ state = "IDLE"

\* b is on the same side of the default d as a, and not past it
SameSide(a, b, d) == (a >= d => b >= d) /\ (a <= d => b <= d)

StrictlyCloser(a, b, d) == Abs(b - d) < Abs(a - d) /\ SameSide(a, b, d)

NotFarther(a, b, d) == Abs(b - d) <= Abs(a - d) /\ SameSide(a, b, d)

\* distance from the default beyond which one decay step is a real move
FarFromDefault == Dec(100)

C14_Ranges ==
    /\ 0 <= z
    /\ MIN_SCALE <= scale /\ scale <= MAX_SCALE
    /\ 0 <= x /\ x <= Unit
    /\ 0 <= y /\ y <= Unit

\* a pull at the end of a long pull: the depth is held at 0 and the scale at
\* MAX_SCALE
C14_Witness ==
    /\ call.op = "update" /\ call.arg = "pull" /\ call.hd # None
    /\ pre.state = "PULLING" /\ pre.z = 0 /\ pre.scale = MAX_SCALE
    /\ state = "PULLING" /\ z = 0 /\ scale = MAX_SCALE

\* ------------------------------------------------------------------------
\*  AppleController with its public fsm also driven directly (SpecApi)
\* ------------------------------------------------------------------------
\* hand-present updates and direct use of controller.fsm
NextApi ==
    \/ \E gesture \in Gestures, hd \in CtlSamples : Update(gesture, hd)
    \/ NextFSM

SpecApi == Init /\ [][NextApi]_vars

\* the next state the claim gives for a hand-present update
NextStateTable(s, gesture) ==
    CASE s = "IDLE" -> IF gesture = "open_hand" THEN "RESPONDING" ELSE "IDLE"
      [] s = "RESPONDING" ->
            IF gesture = "pull" THEN "PULLING"
            ELSE IF gesture = "none" THEN "IDLE"
            ELSE "RESPONDING"
      [] s = "PULLING" ->
            IF gesture = "grab" THEN "FOLLOWING"
            ELSE IF gesture \in {"pull", "open_hand"} THEN "PULLING"
            ELSE "IDLE"
      [] s = "GRABBED" -> "FOLLOWING"
      [] s = "FOLLOWING" -> IF gesture = "grab" THEN "FOLLOWING" ELSE "IDLE"

\* C20: for a hand-present update the state afterwards is the function of
\* (state before, gesture) given by the table: Idle: open_hand->Responding,
\* otherwise Idle; Responding: pull->Pulling, none->Idle, open_hand or
\* grab->Responding; Pulling: grab->Following, pull or open_hand->Pulling,
\* none->Idle; Grabbed: any->Following; Following: grab->Following, any
\* other->Idle.
C20_NextState ==
    HandPresentCall => state = NextStateTable(pre.state, call.arg)

\* an update that began in GRABBED and ended in FOLLOWING
C20_Witness ==
    /\ HandPresentCall
    /\ pre.state = "GRABBED"
    /\ call.arg = "none"
    /\ state = "FOLLOWING"

\* ------------------------------------------------------------------------
\*  main.py: the frame loop
\* ------------------------------------------------------------------------
\* step 2 of the loop: detect on the right hand, or reset when it is absent
frame_detect(d, right_hand) ==
    IF right_hand # None
    THEN LET r == detect(d, right_hand) IN [d |-> r.d, gesture |-> r.out]
    ELSE [d |-> detector_reset(d), gesture |-> "none"]

\* AppleController.update(gesture, hand_data), either branch
controller_update(c, gesture, hand_data) ==
    IF hand_data = None
    THEN [c |-> hand_lost(c), rets |-> <<>>]
    ELSE hand_present(c, gesture, hand_data)

\* step 3: all(lm[t].y < lm[m].y for t, m in zip(tips, mcps)) on the left hand
left_palm_open_of(left_hand) ==
    /\ left_hand # None
    /\ \A i \in 1..Len(FingerTips) :
           left_hand.all_landmarks[FingerTips[i]].y
               < left_hand.all_landmarks[FingerMcps[i]].y

HAND_TRANSFER_DIST == Dec(150)

\* step 3: left_close_to_right; the loop reads it only where left_palm_open
\* is true, so only where a left hand has given it a value
left_close_to_right_of(right_hand, left_hand) ==
    /\ left_hand # None
    /\ right_hand # None
    /\ distance(right_hand.palm_center, left_hand.palm_center)
           < HAND_TRANSFER_DIST

is_following_of(c) == c.state \in {"GRABBED", "FOLLOWING"}

\* step 4: current_gap < 100
is_snapped_of(ax, cx) == RoundQ(ax - (cx + CamW * PxUnit), 1) < 100 * PxUnit

\* step 5: the Apple Window dragged by the right hand's movement
drag(ax, ay, right_hand, phx, phy) ==
    LET dx == fsub(right_hand.palm_center[1], phx)
        dy == fsub(right_hand.palm_center[2], phy)
        mx == RoundQ(RoundQ(dx * CamW * PxUnit, Unit) * WIN_DRAG_SENSITIVITY,
                     Unit)
        my == RoundQ(RoundQ(dy * CamH * PxUnit, Unit) * WIN_DRAG_SENSITIVITY,
                     Unit)
    IN  <<Max2(((-CamW) \div 2) * PxUnit, fadd(ax, mx)),
          Max2(0, fadd(ay, my))>>

\* step 5: the Camera Window moved towards the Apple Window
camera_move(ax, ay, cx, cy) ==
    LET tx   == fsub(fsub(ax, CamW * PxUnit), WIN_GAP_MIN * PxUnit)
        ty   == ay
        dx   == fsub(tx, cx)
        dy   == fsub(ty, cy)
        dist == RoundQ(ISqrtIn(dx * dx + dy * dy, 0, Abs(dx) + Abs(dy)), 1)
    IN  IF dist <= WIN_MOVE_SPEED * PxUnit \/ dist = 0
        THEN <<tx, ty>>
        ELSE <<fadd(cx, RoundQ(RoundQ(dx * Unit, dist)
                                  * WIN_MOVE_SPEED * PxUnit, Unit)),
               fadd(cy, RoundQ(RoundQ(dy * Unit, dist)
                                  * WIN_MOVE_SPEED * PxUnit, Unit))>>

\* step 6 with "transfer" passed on as "grab"
effective_gesture_as_grab(gesture, right_hand, lpo, lctr, isf, snapped) ==
    LET e == IF lpo /\ right_hand # None /\ ~isf
             THEN "grab"
             ELSE IF right_hand # None /\ gesture = "grab" /\ lpo
                     /\ lctr /\ ~isf
             THEN "grab"
             ELSE IF (lpo /\ snapped /\ ~isf)
                     \/ (lpo /\ lctr
                         /\ ~isf)
             THEN "grab"
             ELSE gesture
    IN  IF gesture = "grab" /\ ~snapped THEN "none" ELSE e

\* step 6: the gesture handed to the controller, from the reported gesture,
\* left_palm_open (lpo), left_close_to_right (lctr), is_following (isf) and
\* is_snapped (snapped)
effective_gesture(gesture, right_hand, lpo, lctr, isf, snapped) ==
    LET e == IF lpo /\ right_hand # None /\ ~isf
             THEN "transfer"
             ELSE IF right_hand # None /\ gesture = "grab" /\ lpo
                     /\ lctr /\ ~isf
             THEN "transfer"
             ELSE IF (lpo /\ snapped /\ ~isf)
                     \/ (lpo /\ lctr
                         /\ ~isf)
             THEN "grab"
             ELSE gesture
    IN  IF gesture = "grab" /\ ~snapped THEN "none" ELSE e

\* steps 4 and 5: the window positions after dragging and camera move, and
\* is_snapped recalculated from them
frame_windows(gesture, c, ax, ay, cx, cy, phx, phy, right_hand) ==
    LET isf   == is_following_of(c)
        apple == IF gesture = "grab" /\ right_hand # None /\ ~isf
                 THEN drag(ax, ay, right_hand, phx, phy)
                 ELSE <<ax, ay>>
        cam   == IF gesture = "thumb_right" /\ right_hand # None /\ ~isf
                 THEN camera_move(apple[1], apple[2], cx, cy)
                 ELSE <<cx, cy>>
    IN  [apple |-> apple, cam |-> cam,
         is_snapped |-> is_snapped_of(apple[1], cam[1])]

\* steps 7 and 8: the Apple Window is destroyed on entering is_following and
\* created again on leaving it
window_lifecycle(c, visible) ==
    [visible |-> ~is_following_of(c),
     destroyed |-> is_following_of(c) /\ visible]

\* the right hand comes one depth level nearer every frame it is seen
NextLevel == (level % 4) + 1

PinchLeftAt(k) == HandData(<<0, Dec(500)>>, ThumbPinch, IndexX, FistYs,
                           Levels[k][2], Levels[k][1])

\* the right hand of a frame: open, pinched, pinched at the left edge, absent
RightPoses == {"open", "pinch", "pinch_left", "absent"}

RightHand(pose) ==
    CASE pose = "open" -> OpenAt(NextLevel)
      [] pose = "pinch" -> PinchFistAt(NextLevel)
      [] pose = "pinch_left" -> PinchLeftAt(NextLevel)
      [] pose = "absent" -> None

\* the left hand of a frame: an open palm at the centre of the image, or none
LeftHands == {None, OpenAt(1)}

\* one iteration of the frame loop of main(), steps 2 to 8
MainFrame(pose, left_hand) ==
    /\ calls < MaxFrames
    /\ \E right_hand \in {RightHand(pose)} :
       \E det \in {frame_detect(Detector, right_hand)} :
       \E lpo \in {left_palm_open_of(left_hand)} :
       \E lctr \in {left_close_to_right_of(right_hand, left_hand)} :
       \E win \in {frame_windows(det.gesture, Controller, apple_win_x,
                                 apple_win_y, current_cam_x, current_cam_y,
                                 prev_hand_x, prev_hand_y, right_hand)} :
       \E eff \in {effective_gesture(det.gesture, right_hand, lpo, lctr,
                                     is_following_of(Controller),
                                     win.is_snapped)} :
       \E upd \in {controller_update(Controller, eff, right_hand)} :
       \E life \in {window_lifecycle(upd.c, apple_window_visible)} :
           /\ SetDetector(det.d)
           /\ SetController(upd.c)
           /\ apple_win_x' = win.apple[1]
           /\ apple_win_y' = win.apple[2]
           /\ current_cam_x' = win.cam[1]
           /\ current_cam_y' = win.cam[2]
           /\ prev_hand_x' = IF right_hand # None
                             THEN right_hand.palm_center[1] ELSE prev_hand_x
           /\ prev_hand_y' = IF right_hand # None
                             THEN right_hand.palm_center[2] ELSE prev_hand_y
           /\ apple_window_visible' = life.visible
           /\ obs' = [gesture |-> det.gesture, effective_gesture |-> eff,
                      right_hand |-> right_hand, left_hand |-> left_hand,
                      left_palm_open |-> lpo, left_close_to_right |-> lctr,
                      is_following |-> is_following_of(upd.c),
                      is_snapped |-> win.is_snapped,
                      destroyed |-> life.destroyed]
           /\ call' = [op |-> "frame", arg |-> eff, hd |-> right_hand,
                       rets |-> upd.rets]
           /\ hand_state' = IF right_hand # None THEN upd.c.state
                             ELSE hand_state
           /\ absent_run' = IF right_hand # None THEN 0 ELSE absent_run + 1
           /\ absent_before' = IF right_hand # None
                               THEN absent_before \/ absent_run > 0
                               ELSE absent_before
    /\ pre' = Controller
    /\ calls' = calls + 1
    /\ level' = IF pose = "absent" THEN level ELSE NextLevel
    /\ UNCHANGED <<hist, maVars>>

NextMain == \E pose \in RightPoses, left_hand \in LeftHands :
                MainFrame(pose, left_hand)

SpecMain == Init /\ [][NextMain]_vars

\* C16: in every iteration of the frame loop the gesture passed to
\* AppleController.update is one of none, open_hand, pull, grab.
C16_FourLabels ==
    call.op = "frame" => call.arg \in {"none", "open_hand", "pull", "grab"}

\* C17: in the frame loop, when the left palm is open while a right hand is
\* present and the apple is not already grabbed or following, the state
\* after controller.update is Grabbed or Following.
C17_LeftPalmTransfers ==
    (call.op = "frame" /\ obs.left_palm_open /\ call.hd # None
        /\ ~is_following_of(pre)) =>
        state \in {"GRABBED", "FOLLOWING"}

PipeFrame(right_hand) ==
    /\ calls < MaxPipeFrames
    /\ \E det \in {frame_detect(Detector, right_hand)} :
       \E upd \in {controller_update(Controller, det.gesture, right_hand)} :
           /\ SetDetector(det.d)
           /\ SetController(upd.c)
           /\ call' = [op |-> "pipe_frame", arg |-> det.gesture,
                       hd |-> right_hand, rets |-> upd.rets]
           /\ hand_state' = IF right_hand # None THEN upd.c.state
                             ELSE hand_state
    /\ absent_run' = IF right_hand # None THEN 0 ELSE absent_run + 1
    /\ absent_before' = IF right_hand # None
                        THEN absent_before \/ absent_run > 0
                        ELSE absent_before
    /\ pre' = Controller
    /\ calls' = calls + 1
    /\ UNCHANGED <<hist, maVars, mainVars>>

NextPipe == \E right_hand \in DetSamples \cup {None} : PipeFrame(right_hand)

SpecPipe == Init /\ [][NextPipe]_vars

\* C18: when the controller is given exactly the label detect() reports
\* (and a reset detector and gesture none on a frame without a hand), the
\* state after every frame is Idle or Responding; Pulling, Grabbed and
\* Following are never reached.
C18_OnlyIdleOrResponding == state \in {"IDLE", "RESPONDING"}

\* a reported pull reaches the controller, which is back in IDLE by then
C18_Witness ==
    /\ call.op = "pipe_frame" /\ call.arg = "pull" /\ call.hd # None
    /\ pre.state = "IDLE"
    /\ state = "IDLE"
    /\ Len(buffer) >= PULL_FRAMES_REQUIRED + 1
    /\ stable_count >= GESTURE_HYSTERESIS

\* ------------------------------------------------------------------------
\*  More claims about AppleController (SpecCtl)
\* ------------------------------------------------------------------------
HandAbsentCall == call.op = "update" /\ call.hd = None

C22_CounterRestarts ==
    /\ HandPresentCall => no_hand_frames = 0
    /\ call.op = "update" => no_hand_frames = absent_run
    /\ (HandAbsentCall /\ (state # pre.state
                             \/ no_hand_frames >= IDLE_TIMEOUT_FRAMES)) =>
           absent_run >= IDLE_TIMEOUT_FRAMES

\* the 14th absent call of a second absent run: with the absent calls of
\* the run before it 15 or more were made, and the state is still held
C22_Witness ==
    /\ HandAbsentCall
    /\ absent_before
    /\ absent_run = IDLE_TIMEOUT_FRAMES - 1
    /\ hand_state = "RESPONDING"
    /\ state = "RESPONDING"

\* C23 as stated: on the update calls that follow the idle-timeout reset,
\* while the hand stays absent, x, y, scale and z drift back: each one that
\* is off its default is strictly closer to it after the call.
C23_DriftAfterTimeout ==
    (HandAbsentCall /\ no_hand_frames > IDLE_TIMEOUT_FRAMES) =>
        /\ pre.x # DEFAULT_APPLE_X =>
               StrictlyCloser(pre.x, x, DEFAULT_APPLE_X)
        /\ pre.y # DEFAULT_APPLE_Y =>
               StrictlyCloser(pre.y, y, DEFAULT_APPLE_Y)
        /\ pre.scale # DEFAULT_SCALE =>
               StrictlyCloser(pre.scale, scale, DEFAULT_SCALE)
        /\ pre.z # DEFAULT_APPLE_Z =>
               StrictlyCloser(pre.z, z, DEFAULT_APPLE_Z)

\* C24: in every update with a hand sample the property rule applied is the
\* one of the state the call ends in, computed from the values before the
\* call: ending in Responding only the scale moves (toward 1.1 times the
\* default), ending in Pulling only depth and scale step, ending in Idle
\* all four decay toward the defaults (also on the frame that releases
\* Following: no snap to the hand), ending in Following only x and y move.
C24_RuleOfNewState ==
    HandPresentCall =>
        /\ state = "RESPONDING" =>
               /\ scale = lerp(pre.scale, fmul(DEFAULT_SCALE, Dec(1100)),
                               SCALE_LERP)
               /\ x = pre.x /\ y = pre.y /\ z = pre.z
        /\ state = "PULLING" =>
               /\ z = Max2(0, fsub(pre.z, Dec(10)))
               /\ scale = clamp(fadd(pre.scale, PULL_SCALE_STEP),
                                MIN_SCALE, MAX_SCALE)
               /\ x = pre.x /\ y = pre.y
        /\ state = "IDLE" =>
               /\ x = lerp(pre.x, DEFAULT_APPLE_X,
                               fmul(POSITION_LERP, Dec(500)))
               /\ y = lerp(pre.y, DEFAULT_APPLE_Y,
                               fmul(POSITION_LERP, Dec(500)))
               /\ scale = lerp(pre.scale, DEFAULT_SCALE, SCALE_LERP)
               /\ z = lerp(pre.z, DEFAULT_APPLE_Z, SCALE_LERP)
        /\ state = "FOLLOWING" =>
               /\ z = pre.z /\ scale = pre.scale
               /\ pre.state = "FOLLOWING" =>
                      /\ x = lerp(pre.x, call.hd.palm_center[1], Unit)
                      /\ y = lerp(pre.y, call.hd.palm_center[2], Unit)

\* the frame that releases Following: the Idle decay acted, the apple is
\* neither left where it was nor put on the hand
C24_Witness ==
    /\ HandPresentCall
    /\ pre.state = "FOLLOWING"
    /\ call.arg = "open_hand"
    /\ state = "IDLE"
    /\ x # pre.x
    /\ x # call.hd.palm_center[1]

FollowingCall == HandPresentCall /\ state = "FOLLOWING"

\* v is the target up to the rounding of one subtraction and one addition:
\* the error is at most 2^-(Precision-1) of the distance that was covered
WithinRounding(v, from, target) ==
    Abs(v - target) * Pow2(Precision - 1) <= Abs(target - from)

\* C25 as stated: whenever a hand-present update returns with the state
\* Following, (x, y) equals that call's palm-center exactly, on every frame
\* spent in Following.
C25_ExactEveryFrame ==
    FollowingCall =>
        /\ x = call.hd.palm_center[1]
        /\ y = call.hd.palm_center[2]

\* C25 amended: whenever a hand-present update returns with the state
\* Following, (x, y) is the palm-center exactly on the frame of attachment
\* and on a frame where the hand did not move, and on the other frames it is
\* a + (target - a) * 1.0 in floating point, the palm-center up to rounding.
C25_FollowingTracks ==
    FollowingCall =>
        /\ pre.state # "FOLLOWING" =>
               /\ x = call.hd.palm_center[1]
               /\ y = call.hd.palm_center[2]
        /\ pre.x = call.hd.palm_center[1] => x = pre.x
        /\ pre.y = call.hd.palm_center[2] => y = pre.y
        /\ WithinRounding(x, pre.x, call.hd.palm_center[1])
        /\ WithinRounding(y, pre.y, call.hd.palm_center[2])

\* a later frame in Following on which the hand moved and x is off target
C25_Witness ==
    /\ FollowingCall
    /\ pre.state = "FOLLOWING"
    /\ pre.x # call.hd.palm_center[1]
    /\ x # call.hd.palm_center[1]
    /\ x # pre.x

IdleDecayOfPosition ==
    /\ x = lerp(pre.x, DEFAULT_APPLE_X, fmul(POSITION_LERP, Dec(500)))
    /\ y = lerp(pre.y, DEFAULT_APPLE_Y, fmul(POSITION_LERP, Dec(500)))

\* C26 as stated: in every hand-present update that ends in Idle,
\* Responding or Grabbed the position moves toward the default centre by
\* the factor POSITION_LERP * 0.5.
C26_DecayOutsideFollowingPulling ==
    (HandPresentCall /\ state \in {"IDLE", "RESPONDING", "GRABBED"}) =>
        IdleDecayOfPosition

\* C26 amended: a hand-present update that ends in Idle moves the position
\* toward the default centre by the factor POSITION_LERP * 0.5; one that
\* ends in Responding or Pulling leaves the position as it was; no update
\* ends in Grabbed.
C26_PositionRule ==
    HandPresentCall =>
        /\ state = "IDLE" => IdleDecayOfPosition
        /\ state \in {"RESPONDING", "PULLING"} => x = pre.x /\ y = pre.y
        /\ state # "GRABBED"

\* Responding with the apple off the default centre: the position is kept
C26_Witness ==
    /\ HandPresentCall
    /\ state = "RESPONDING"
    /\ x # DEFAULT_APPLE_X
    /\ x = pre.x
    /\ x # lerp(pre.x, DEFAULT_APPLE_X, fmul(POSITION_LERP, Dec(500)))

\* ------------------------------------------------------------------------
\*  The detector under a hysteresis threshold of 3 or more (SpecHyst)
\* ------------------------------------------------------------------------
\* GestureDetector.detect, the hysteresis step with GESTURE_HYSTERESIS = H
hysteresis_at(H, last, count, raw) ==
    LET l == raw
        c == IF raw = last THEN count + 1 ELSE 1
    IN  [last_gesture |-> l, stable_count |-> c,
         out |-> IF c >= H THEN raw
                 ELSE IF c > 1 THEN l ELSE "none"]

\* GestureDetector.detect with GESTURE_HYSTERESIS = H
detect_at(H, d, hd) ==
    LET b   == deque_append(d.buffer, hd, 12)
        zs  == ma_update(d.z_smoother, 6, hd.avg_z).buf
        ws  == ma_update(d.w_smoother, 6, hd.palm_width).buf
        raw == classify(hd, zs, ws)
        h   == hysteresis_at(H, d.last_gesture, d.stable_count, raw)
    IN  [d |-> [buffer |-> b, z_smoother |-> zs, w_smoother |-> ws,
                last_gesture |-> h.last_gesture,
                stable_count |-> h.stable_count],
         raw |-> raw, out |-> h.out]

\* samples with raw labels open_hand, none and grab
HystSamples == {OpenAt(1), FistAt(1), PinchFistAt(1)}

\* GestureDetector.detect(hand_data) with the threshold HysteresisH
DetectAt(hd) ==
    /\ calls < MaxDetect
    /\ LET r == detect_at(HysteresisH, Detector, hd)
       IN  /\ SetDetector(r.d)
           /\ hist' = Append(hist, [raw |-> r.raw, out |-> r.out,
                                    fresh |-> FreshRun,
                                    count |-> r.d.stable_count])
           /\ call' = [op |-> "detect", arg |-> NoArg, hd |-> hd,
                       rets |-> <<r.out>>]
    /\ calls' = calls + 1
    /\ UNCHANGED <<ctlVars, maVars, mainVars, pre>>

NextHyst == (\E hd \in HystSamples : DetectAt(hd)) \/ DetectorReset

SpecHyst == Init /\ [][NextHyst]_vars

\* C27 as stated: with a threshold H >= 3, on a frame whose counter c has
\* 1 < c < H after the raw label changed away from a label that had been
\* stable (counter at H or more), detect() reports that old label and not
\* the new raw label.
C27_HoldsOldLabel ==
    \A i \in 1..Len(hist) :
        LET e == hist[i]
        IN  (1 < e.count /\ e.count < HysteresisH /\ i > e.count
             /\ hist[i - e.count].count >= HysteresisH) =>
                /\ e.out = hist[i - e.count].raw
                /\ e.out # e.raw

\* ------------------------------------------------------------------------
\*  Claims about the pull test (SpecDet)
\* ------------------------------------------------------------------------
\* the number of detect() calls made since construction or the last reset(),
\* call i of the history included
PosInRun(i) ==
    LET start == CHOOSE j \in 1..i :
                    hist[j].fresh /\ \A k \in (j + 1)..i : ~hist[k].fresh
    IN  i - start + 1

\* C28: after construction or reset(), none of the first
\* PULL_FRAMES_REQUIRED detect() calls has the raw label pull, whatever the
\* samples: each of them classifies open_hand, none or grab.
C28_NoEarlyPull ==
    \A i \in 1..Len(hist) :
        PosInRun(i) <= PULL_FRAMES_REQUIRED =>
            hist[i].raw \in {"open_hand", "none", "grab"}

\* after a reset, three open-hand samples with the depth falling at every
\* step: all three are classified open_hand
C28_Witness ==
    /\ Len(hist) >= PULL_FRAMES_REQUIRED + 1
    /\ PosInRun(Len(hist)) = PULL_FRAMES_REQUIRED
    /\ Len(z_smoother) = PULL_FRAMES_REQUIRED
    /\ \A i \in 1..(PULL_FRAMES_REQUIRED - 1) :
           fsub(z_smoother[i + 1], z_smoother[i]) < PULL_Z_DELTA_THRESHOLD
    /\ \A i \in 0..(PULL_FRAMES_REQUIRED - 1) :
           hist[Len(hist) - i].raw = "open_hand"

\* the k-th most recent difference of consecutive buffered values
RecentDelta(buf, k) == fsub(buf[Len(buf) - k + 1], buf[Len(buf) - k])

ZFalling == \A k \in 1..PULL_FRAMES_REQUIRED :
                RecentDelta(z_smoother, k) < PULL_Z_DELTA_THRESHOLD

WGrowing == \A k \in 1..PULL_FRAMES_REQUIRED :
                RecentDelta(w_smoother, k) > PULL_W_DELTA_THRESHOLD

\* a detect() call whose sample gets as far as the pull test, with history
PullTested ==
    /\ call.op = "detect"
    /\ ~is_grab(call.hd)
    /\ fingers_extended(call.hd)
    /\ Len(z_smoother) >= PULL_FRAMES_REQUIRED + 1

\* C29: with enough history the pull test holds iff, over the
\* PULL_FRAMES_REQUIRED deltas of the most recent PULL_FRAMES_REQUIRED + 1
\* samples, every depth delta is strictly below PULL_Z_DELTA_THRESHOLD or
\* every width delta is strictly above PULL_W_DELTA_THRESHOLD; one frame
\* whose depth delta and width delta both miss makes the test fail.
C29_PullTest ==
    PullTested =>
        /\ hist[Len(hist)].raw = "pull" <=> (ZFalling \/ WGrowing)
        /\ (\E k \in 1..PULL_FRAMES_REQUIRED :
                /\ RecentDelta(z_smoother, k) >= PULL_Z_DELTA_THRESHOLD
                /\ RecentDelta(w_smoother, k) <= PULL_W_DELTA_THRESHOLD)
              => hist[Len(hist)].raw = "open_hand"

\* the width grows at every step while the depth does not fall at every
\* step: the width signal alone gives pull
C29_Witness ==
    /\ PullTested
    /\ WGrowing
    /\ ~ZFalling
    /\ hist[Len(hist)].raw = "pull"

\* the average that the smoother returned on the j-th detect() call of the
\* run, while the window has not dropped a value yet
SmoothedAt(buf, j) == ma_update(SubSeq(buf, 1, j - 1), 6, buf[j]).avg

\* the k-th most recent difference of consecutive smoothed values
SmoothedDelta(buf, k) ==
    fsub(SmoothedAt(buf, Len(buf) - k + 1), SmoothedAt(buf, Len(buf) - k))

\* C30 as stated: the pull test is made on the differences between the
\* moving-average outputs that the depth and width smoothers returned on
\* consecutive frames: the raw label is pull iff every such depth difference
\* is below PULL_Z_DELTA_THRESHOLD or every such width difference is above
\* PULL_W_DELTA_THRESHOLD.
C30_SmoothedDeltas ==
    (PullTested /\ Len(z_smoother) = PosInRun(Len(hist))) =>
        (hist[Len(hist)].raw = "pull" <=>
            \/ \A k \in 1..PULL_FRAMES_REQUIRED :
                   SmoothedDelta(z_smoother, k) < PULL_Z_DELTA_THRESHOLD
            \/ \A k \in 1..PULL_FRAMES_REQUIRED :
                   SmoothedDelta(w_smoother, k) > PULL_W_DELTA_THRESHOLD)

\* ------------------------------------------------------------------------
\*  The reported stream under the configured threshold (SpecDet)
\* ------------------------------------------------------------------------
\* call i has the raw label of the call before it, in the same tracking run
RepeatsRaw(i) == i >= 2 /\ ~hist[i].fresh /\ hist[i].raw = hist[i - 1].raw

\* C31: with GESTURE_HYSTERESIS = 2 the label reported at frame t is the raw
\* label of frame t when frame t-1 of the same tracking run had the same
\* raw label, and none otherwise; so the first detect() after construction
\* or reset() reports none, and a label other than none is never followed
\* at the next frame by a different label other than none.
C31_ReportedIsRepeatedRaw ==
    /\ GESTURE_HYSTERESIS = 2
    /\ \A i \in 1..Len(hist) :
           /\ hist[i].out = IF RepeatsRaw(i) THEN hist[i].raw ELSE "none"
           /\ hist[i].fresh => hist[i].out = "none"
           /\ (i >= 2 /\ hist[i - 1].out # "none" /\ hist[i].out # "none")
                 => hist[i].out = hist[i - 1].out

\* open_hand is reported, then the raw label changes to grab: none is
\* reported at the change and grab on its second frame
C31_Witness ==
    \E i \in 2..Len(hist) :
        /\ i + 2 <= Len(hist)
        /\ hist[i].out = "open_hand"
        /\ hist[i + 1].raw = "grab" /\ hist[i + 1].out = "none"
        /\ hist[i + 2].raw = "grab" /\ hist[i + 2].out = "grab"
        /\ ~hist[i + 1].fresh /\ ~hist[i + 2].fresh

\* ------------------------------------------------------------------------
\*  Last claims about AppleController (SpecCtl)
\* ------------------------------------------------------------------------
\* C32: every fsm.transition call that AppleController.update makes returns
\* True, whatever the sequence of gestures and samples: the controller only
\* asks for edges of the table, and each one takes effect.
C32_NoRejectedAttempt ==
    call.op = "update" =>
        /\ \A i \in 1..Len(call.rets) : call.rets[i] = TRUE
        /\ Len(call.rets) <= 2
        /\ (HandPresentCall /\ Len(call.rets) = 0) => state = pre.state
        /\ (HandPresentCall /\ Len(call.rets) > 0) =>
               /\ state # pre.state
               /\ state \in TRANSITIONS[pre.state] \cup {"FOLLOWING"}

\* a gesture outside the four labels in Pulling: one attempt, to Idle, taken
C32_Witness ==
    /\ HandPresentCall
    /\ call.arg = "transfer"
    /\ pre.state = "PULLING"
    /\ call.rets = <<TRUE>>
    /\ state = "IDLE"

\* C33: a hand-present update leaves unchanged every property that the
\* rule of the state it ends in does not name: ending in Following leaves
\* scale and z as they were (also on the frame of attachment), ending in
\* Pulling leaves x and y as they were, ending in Responding leaves z (and
\* x and y) as it was.
C33_UnnamedPropertiesKept ==
    HandPresentCall =>
        /\ state = "FOLLOWING" => scale = pre.scale /\ z = pre.z
        /\ state = "PULLING" => x = pre.x /\ y = pre.y
        /\ state = "RESPONDING" => z = pre.z /\ x = pre.x /\ y = pre.y

\* a later frame in Following: the hand moved and the apple with it, while
\* scale and depth still have the values that pulling left, off the defaults
C33_Witness ==
    /\ HandPresentCall
    /\ pre.state = "FOLLOWING"
    /\ state = "FOLLOWING"
    /\ x # pre.x
    /\ scale = pre.scale /\ scale # DEFAULT_SCALE
    /\ z = pre.z /\ z # DEFAULT_APPLE_Z

====
